---- MODULE Spec2Model ----
(***************************************************************************)
(* Model of the LDAP connection pool of plugin/auth_ldap/src/pool.cc.      *)
(*                                                                         *)
(* The pool owns a vector of Connection handles (v_connections_), a        *)
(* bitmap of lent slots (bs_used_), its sizes and its configuration, all   *)
(* guarded by pool_mutex_.  Caller threads run borrow_connection and       *)
(* return_connection, one thread runs reconfigure, and detached threads    *)
(* run zombie_control.  Every action is one stretch of code between two    *)
(* points where another thread can observe or change the shared state.     *)
(* Slot i of the code (0-based) is position i + 1 of the sequences here.   *)
(***************************************************************************)
EXTENDS Integers, Sequences, FiniteSets

\* ----------------------------------------------------------------- bounds
\* Largest pool size (and initial size) given to the constructor / reconfigure.
MaxSize == 2
\* Number of caller threads running borrow_connection / return_connection.
NCallers == 2
\* Handles the callers hold at once.
MaxLoans == MaxSize
\* Connection objects alive at once (slots plus snipped handles still lent).
MaxHandles == MaxSize + 1
\* Detached zombie_control threads spawned and not yet run.
MaxSweeps == NCallers

\* Longest mapping string given to reset_group_role_mapping, besides the
\* two examples.
MaxLen == 5

\* A further reset_group_role_mapping call is explored after calls whose
\* argument had at most this many characters.
MaxEarlier == 2

\* Configurations (endpoint/TLS settings and bind credentials) by version.
Cfgs == {1, 2}

\* The characters of the mapping strings: two letters and the two delimiters.
Chars == {"a", "b", "=", ","}

Callers == 1 .. NCallers
\* Owner ids of pool_mutex_: 0 is unlocked, a caller's id, or the
\* reconfiguring thread's.
RcThread == NCallers + 1
HandleIds == 1 .. MaxHandles
Sizes == 0 .. MaxSize

VARIABLES
  pool_initial_size_,  \* Pool::pool_initial_size_
  pool_max_size_,      \* Pool::pool_max_size_
  bs_used_,            \* Pool::bs_used_, the bitmap, as a sequence of BOOLEAN
  v_connections_,      \* Pool::v_connections_, a sequence of handle ids (0: null)
  ldap_host_,          \* the stored endpoint/TLS settings (a version of Cfgs)
  bind_dn_,            \* the stored bind credentials (a version of Cfgs)
  pool_mutex_,         \* owner of Pool::pool_mutex_, 0 when unlocked
  conns,               \* the Connection objects alive, by handle id
  loans,               \* how many borrowers hold each handle
  pc,                  \* each caller's position in borrow/return_connection
  t_idx,               \* borrow_connection's local idx, per caller
  t_conn,              \* return_connection's parameter conn, per caller
  rc,                  \* the reconfiguring thread: position, arguments, log
  sweeps,              \* detached zombie_control threads not yet run
  crashed,             \* the process died of an out-of-range access
  group_role_mapping_, \* Pool::group_role_mapping_, a function from keys to values
  mapping              \* the argument of the last reset_group_role_mapping call

vars == << pool_initial_size_, pool_max_size_, bs_used_, v_connections_,
           ldap_host_, bind_dn_, pool_mutex_, conns, loans, pc, t_idx,
           t_conn, rc, sweeps, crashed, group_role_mapping_, mapping >>

\* ------------------------------------------------------- general helpers
Min(S) == CHOOSE x \in S : \A y \in S : x <= y

RECURSIVE SumOver(_, _)
SumOver(f, S) ==
  IF S = {} THEN 0
  ELSE LET x == CHOOSE y \in S : TRUE IN f[x] + SumOver(f, S \ {x})

\* std::vector / dynamic_bitset resize: keep the prefix, pad with `fill`.
Resize(s, n, fill) == [i \in 1 .. n |-> IF i <= Len(s) THEN s[i] ELSE fill]

\* dynamic_bitset::count()
Count(bs) == Cardinality({i \in 1 .. Len(bs) : bs[i]})

\* ------------------------------------------------- the Connection handle
\* No Connection object (an unused handle id).
NoConn == [idx |-> -1, busy |-> FALSE, snipped |-> FALSE,
           ep |-> 0, cep |-> 0, ccred |-> 0]

\* Connection::Connection(idx, host, port, ...): free, not snipped, never
\* connected.
Connection(i, cfg) == [idx |-> i, busy |-> FALSE, snipped |-> FALSE,
                       ep |-> cfg, cep |-> 0, ccred |-> 0]

\* Connection::configure: replace the endpoint/TLS settings.
configure(cn, cfg) == [cn EXCEPT !.ep = cfg]

\* Connection::connect(bind_dn, bind_pwd, auth_resp): bind with the
\* credentials over the settings the handle has now.
connect(cn, cred) == [cn EXCEPT !.cep = cn.ep, !.ccred = cred]

conn_mark_as_busy(cn) == [cn EXCEPT !.busy = TRUE]
conn_mark_as_free(cn) == [cn EXCEPT !.busy = FALSE]
mark_as_snipped(cn) == [cn EXCEPT !.snipped = TRUE]
is_snipped(cn) == cn.snipped
get_idx_pool(cn) == cn.idx

\* ------------------------------------------------------ Pool's helpers
\* Mutant of mark_as_busy: the bit is not set.
mark_as_busy_Forget(bs, idx) == bs

\* Pool::mark_as_busy(idx)
mark_as_busy(bs, idx) == [bs EXCEPT ![idx + 1] = TRUE]

\* Mutant of mark_as_free: the range check is off by one.
mark_as_free_OffByOne(bs, idx) ==
  IF Len(bs) > idx + 1 THEN [bs EXCEPT ![idx + 1] = FALSE] ELSE bs

\* Pool::mark_as_free(idx): out-of-range indices are ignored.
mark_as_free(bs, idx) ==
  IF Len(bs) > idx THEN [bs EXCEPT ![idx + 1] = FALSE] ELSE bs

\* Mutant of resize_used: the bitmap is not resized.
resize_used_Skip(bs, n) == bs

\* bs_used_.resize(n): keep the lower bits, new bits are clear.
resize_used(bs, n) == Resize(bs, n, FALSE)

\* Mutant of find_first_free: the scan keeps the last clear bit it meets.
find_first_free_Last(bs, max) ==
  IF \A i \in 1 .. Len(bs) : bs[i] THEN -1
  ELSE LET free == {i \in 0 .. max - 1 : ~bs[i + 1]}
       IN IF free = {} THEN -1 ELSE CHOOSE x \in free : \A y \in free : y <= x

\* Pool::find_first_free(): -1 when all bits are set, else the lowest clear one.
find_first_free(bs, max) ==
  IF \A i \in 1 .. Len(bs) : bs[i] THEN -1
  ELSE LET free == {i \in 0 .. max - 1 : ~bs[i + 1]}
       IN IF free = {} THEN -1 ELSE Min(free)

\* Pool::get_connection(idx, default_connect): the handle after the call;
\* `ok` is whether connect reported SUCCESS.
get_connection(cn, default_connect, ok, cred) ==
  IF default_connect
  THEN IF ok THEN conn_mark_as_busy(connect(cn, cred)) ELSE connect(cn, cred)
  ELSE conn_mark_as_busy(cn)

\* Whether get_connection returns nullptr.
get_connection_failed(default_connect, ok) == default_connect /\ ~ok

\* Mutant of zombie_used: every used bit is cleared, zombie or not.
zombie_used_All(bs, v, max, zs) == [i \in 1 .. Len(bs) |-> FALSE]

\* The loop of Pool::zombie_control over the slots; zs are the handles whose
\* is_zombie() answers true.  Gives the new bitmap and handles.
zombie_used(bs, v, max, zs) ==
  [i \in 1 .. Len(bs) |-> IF i <= max /\ bs[i] /\ v[i] \in zs THEN FALSE ELSE bs[i]]

zombie_conns(cs, bs, v, max, zs) ==
  [h \in HandleIds |->
     IF \E i \in 1 .. max : bs[i] /\ v[i] = h /\ h \in zs
     THEN conn_mark_as_free(cs[h]) ELSE cs[h]]

\* The handles is_zombie() can matter for: those of used slots.
UsedHandles ==
  {v_connections_[i] :
     i \in {j \in 1 .. Len(v_connections_) : j <= Len(bs_used_) /\ bs_used_[j]}}

\* std::shared_ptr ownership: a Connection lives while a slot, a borrower or
\* a running return_connection refers to it.
Collect(cs, v, ln, tc) ==
  [h \in HandleIds |->
     IF (\E i \in 1 .. Len(v) : v[i] = h) \/ ln[h] > 0 \/ (\E c \in Callers : tc[c] = h)
     THEN cs[h] ELSE NoConn]

Live(cs) == {h \in HandleIds : cs[h] # NoConn}

\* Mutant of Fill: each new handle is given the index after its slot's.
RECURSIVE Fill_Shifted(_, _, _, _, _)
Fill_Shifted(cs, v, from, to, cfg) ==
  IF from >= to THEN [cs |-> cs, v |-> v]
  ELSE LET h == Min(HandleIds \ Live(cs))
       IN Fill_Shifted([cs EXCEPT ![h] = Connection(from + 1, cfg)],
                       [v EXCEPT ![from + 1] = h], from + 1, to, cfg)

\* std::make_shared<Connection> for slots from+1 .. to (positions): the k-th
\* new object takes the k-th unused handle id.
RECURSIVE Fill(_, _, _, _, _)
Fill(cs, v, from, to, cfg) ==
  IF from >= to THEN [cs |-> cs, v |-> v]
  ELSE LET h == Min(HandleIds \ Live(cs))
       IN Fill([cs EXCEPT ![h] = Connection(from, cfg)],
               [v EXCEPT ![from + 1] = h], from + 1, to, cfg)

\* The threshold of return_connection's test, std::ceil(pool_max_size_ * 0.9).
CeilNineTenths(max) == (9 * max + 9) \div 10

RcIdle == [pc |-> "idle", ni |-> 0, nm |-> 0, cfg |-> 0, om |-> 0, log |-> {}]

\* ---------------------------------------- Pool::reset_group_role_mapping
\* Strings are sequences of characters.
RECURSIVE StringsUpTo(_)
StringsUpTo(n) ==
  IF n = 0 THEN {<< >>}
  ELSE LET S == StringsUpTo(n - 1)
       IN S \cup {Append(s, c) : s \in {t \in S : Len(t) = n - 1}, c \in Chars}

\* The strings reset_group_role_mapping is called with.
Mappings ==
  StringsUpTo(MaxLen)
    \cup {<< "a", "=", "1", ",", "b", "=", "2", ",", "c" >>,
          << "g", "=", "r", "=", "x" >>}

\* boost::algorithm::split(out, s, is_any_of(sep)) with token_compress_off:
\* one token per separator plus one, empty tokens kept.
RECURSIVE Split(_, _)
Split(s, sep) ==
  IF \A i \in 1 .. Len(s) : s[i] # sep THEN << s >>
  ELSE LET k == Min({i \in 1 .. Len(s) : s[i] = sep})
       IN << SubSeq(s, 1, k - 1) >> \o Split(SubSeq(s, k + 1, Len(s)), sep)

\* An empty std::map.
EmptyMapping == [k \in {} |-> << >>]

\* group_role_mapping_[k] = v
Put(m, k, v) == [x \in DOMAIN m \cup {k} |-> IF x = k THEN v ELSE m[x]]

\* Mutant of clear: the earlier entries are kept.
clear_Keep(m) == m

\* group_role_mapping_.clear()
clear(m) == EmptyMapping

\* The loop of lines 144-152 over the tokens.
RECURSIVE AssignRoles(_, _)
AssignRoles(m, roles) ==
  IF roles = << >> THEN m
  ELSE LET role == Head(roles)
           r == Split(role, "=")
       IN AssignRoles(IF Len(r) = 1 THEN Put(m, role, role) ELSE Put(m, r[1], r[2]),
                      Tail(roles))

\* Pool::reset_group_role_mapping(mapping): the map after the call.
reset_group_role_mapping(m, s) == AssignRoles(clear(m), Split(s, ","))

\* ------------------------------------------------------------ Pool::Pool
\* The pool after construction with the given sizes and configuration 1.
PoolCtor(init, max) ==
  LET made == Fill([h \in HandleIds |-> NoConn], [i \in 1 .. max |-> 0], 0, max, 1)
  IN [cs |-> [h \in HandleIds |->
                IF made.cs[h] # NoConn /\ made.cs[h].idx < init
                THEN connect(made.cs[h], 1) ELSE made.cs[h]],
      v |-> made.v]

Init ==
  \E init \in Sizes, max \in Sizes :
    /\ pool_initial_size_ = init
    /\ pool_max_size_ = max
    /\ bs_used_ = [i \in 1 .. max |-> FALSE]
    /\ v_connections_ = PoolCtor(init, max).v
    /\ conns = PoolCtor(init, max).cs
    /\ ldap_host_ = 1
    /\ bind_dn_ = 1
    /\ pool_mutex_ = 0
    /\ loans = [h \in HandleIds |-> 0]
    /\ pc = [c \in Callers |-> "idle"]
    /\ t_idx = [c \in Callers |-> -1]
    /\ t_conn = [c \in Callers |-> 0]
    /\ rc = RcIdle
    /\ sweeps = 0
    /\ crashed = FALSE
    /\ group_role_mapping_ = EmptyMapping
    /\ mapping = [called |-> FALSE, s |-> << >>]

\* ------------------------------------------------ Pool::borrow_connection
Busy == {c \in Callers : pc[c] # "idle"}
Borrowing == {c \in Callers : pc[c] = "b89"}
TotalLoans == SumOver(loans, HandleIds)

\* Lines 77-86: take the mutex, find the first free slot and mark it busy.
BorrowLock(c) ==
  /\ ~crashed
  /\ pc[c] = "idle"
  /\ pool_mutex_ = 0
  /\ TotalLoans + Cardinality(Borrowing) < MaxLoans
  /\ sweeps + Cardinality(Busy) < MaxSweeps
  /\ LET idx == find_first_free(bs_used_, pool_max_size_)
     IN /\ t_idx' = [t_idx EXCEPT ![c] = idx]
        /\ bs_used_' = IF idx = -1 THEN bs_used_ ELSE mark_as_busy(bs_used_, idx)
  /\ pool_mutex_' = c
  /\ pc' = [pc EXCEPT ![c] = "b89"]
  /\ UNCHANGED << pool_initial_size_, pool_max_size_, v_connections_, ldap_host_,
                  bind_dn_, conns, loans, t_conn, rc, sweeps, crashed >>
  /\ UNCHANGED << group_role_mapping_, mapping >>

\* Mutant of BorrowNone: nullptr is returned without spawning the sweep.
BorrowNone_NoSpawn(c) ==
  /\ ~crashed
  /\ pc[c] = "b89"
  /\ t_idx[c] = -1
  /\ pool_mutex_' = 0
  /\ pc' = [pc EXCEPT ![c] = "idle"]
  /\ UNCHANGED << pool_initial_size_, pool_max_size_, bs_used_, v_connections_,
                  ldap_host_, bind_dn_, conns, loans, t_idx, t_conn, rc, sweeps,
                  crashed >>
  /\ UNCHANGED << group_role_mapping_, mapping >>

\* Lines 89-93: no slot was free: spawn a detached zombie_control, return
\* nullptr (the lock_guard releases the mutex).
BorrowNone(c) ==
  /\ ~crashed
  /\ pc[c] = "b89"
  /\ t_idx[c] = -1
  /\ sweeps' = sweeps + 1
  /\ pool_mutex_' = 0
  /\ pc' = [pc EXCEPT ![c] = "idle"]
  /\ UNCHANGED << pool_initial_size_, pool_max_size_, bs_used_, v_connections_,
                  ldap_host_, bind_dn_, conns, loans, t_idx, t_conn, rc, crashed >>
  /\ UNCHANGED << group_role_mapping_, mapping >>

\* Lines 95-102: get_connection on the chosen slot (the slow connect, made
\* under the mutex).  With a connection the call returns it (the lock_guard
\* releases the mutex); with nullptr it goes on to line 99.
BorrowGet(c) ==
  /\ ~crashed
  /\ pc[c] = "b89"
  /\ t_idx[c] # -1
  /\ \E default_connect \in BOOLEAN, ok \in BOOLEAN :
       LET h == v_connections_[t_idx[c] + 1]
       IN /\ conns' = [conns EXCEPT ![h] = get_connection(@, default_connect, ok, bind_dn_)]
          /\ IF get_connection_failed(default_connect, ok)
             THEN /\ pc' = [pc EXCEPT ![c] = "b99"]
                  /\ UNCHANGED << loans, t_idx, pool_mutex_ >>
             ELSE /\ loans' = [loans EXCEPT ![h] = @ + 1]
                  /\ t_idx' = [t_idx EXCEPT ![c] = -1]
                  /\ pool_mutex_' = 0
                  /\ pc' = [pc EXCEPT ![c] = "idle"]
  /\ UNCHANGED << pool_initial_size_, pool_max_size_, bs_used_, v_connections_,
                  ldap_host_, bind_dn_, t_conn, rc, sweeps, crashed >>
  /\ UNCHANGED << group_role_mapping_, mapping >>

\* Lines 98-102 when get_connection gave nullptr: the slot is marked free
\* again and nullptr is returned (the lock_guard releases the mutex).
BorrowFree(c) ==
  /\ ~crashed
  /\ pc[c] = "b99"
  /\ bs_used_' = mark_as_free(bs_used_, t_idx[c])
  /\ t_idx' = [t_idx EXCEPT ![c] = -1]
  /\ pool_mutex_' = 0
  /\ pc' = [pc EXCEPT ![c] = "idle"]
  /\ UNCHANGED << pool_initial_size_, pool_max_size_, v_connections_, ldap_host_,
                  bind_dn_, conns, loans, t_conn, rc, sweeps, crashed >>
  /\ UNCHANGED << group_role_mapping_, mapping >>

\* ------------------------------------------------ Pool::return_connection
\* Lines 115-122: a borrower hands handle h back: conn->mark_as_free(), and
\* a snipped handle is dropped (conn.reset()) without touching the pool.
ReturnStart(c, h) ==
  /\ ~crashed
  /\ pc[c] = "idle"
  /\ loans[h] > 0
  /\ sweeps + Cardinality(Busy) < MaxSweeps
  /\ LET ln == [loans EXCEPT ![h] = @ - 1]
         cs == [conns EXCEPT ![h] = conn_mark_as_free(@)]
     IN /\ loans' = ln
        /\ IF is_snipped(conns[h])
           THEN /\ conns' = Collect(cs, v_connections_, ln, t_conn)
                /\ UNCHANGED << pc, t_conn >>
           ELSE /\ conns' = cs
                /\ pc' = [pc EXCEPT ![c] = "r125"]
                /\ t_conn' = [t_conn EXCEPT ![c] = h]
  /\ UNCHANGED << pool_initial_size_, pool_max_size_, bs_used_, v_connections_,
                  ldap_host_, bind_dn_, pool_mutex_, t_idx, rc, sweeps, crashed >>
  /\ UNCHANGED << group_role_mapping_, mapping >>

\* Lines 124-130: under the mutex, mark_as_free(conn->get_idx_pool()).  conn
\* is not used after line 130, so the thread's reference is dropped here.
ReturnFree(c) ==
  /\ ~crashed
  /\ pc[c] = "r125"
  /\ pool_mutex_ = 0
  /\ bs_used_' = mark_as_free(bs_used_, get_idx_pool(conns[t_conn[c]]))
  /\ t_conn' = [t_conn EXCEPT ![c] = 0]
  /\ conns' = Collect(conns, v_connections_, loans, t_conn')
  /\ pc' = [pc EXCEPT ![c] = "r133"]
  /\ UNCHANGED << pool_initial_size_, pool_max_size_, v_connections_, ldap_host_,
                  bind_dn_, pool_mutex_, loans, t_idx, rc, sweeps, crashed >>
  /\ UNCHANGED << group_role_mapping_, mapping >>

\* Lines 132-137: the occupancy test, made without the mutex.  While another
\* thread is inside a critical section the two unsynchronised reads race with
\* its writes and the test can come out either way.
ReturnCheck(c) ==
  /\ ~crashed
  /\ pc[c] = "r133"
  /\ \E spawn \in BOOLEAN :
       /\ pool_mutex_ = 0 => (spawn <=> Count(bs_used_) >= CeilNineTenths(pool_max_size_))
       /\ sweeps' = IF spawn THEN sweeps + 1 ELSE sweeps
  /\ pc' = [pc EXCEPT ![c] = "idle"]
  /\ UNCHANGED << pool_initial_size_, pool_max_size_, bs_used_, v_connections_,
                  ldap_host_, bind_dn_, pool_mutex_, conns, loans, t_idx, t_conn,
                  rc, crashed >>
  /\ UNCHANGED << group_role_mapping_, mapping >>

\* --------------------------------------------------- Pool::zombie_control
\* Mutant of Sweep: the thread frees the zombie slots but never finishes.
Sweep_Stay(zs) ==
  /\ ~crashed
  /\ sweeps > 0
  /\ pool_mutex_ = 0
  /\ bs_used_' = zombie_used(bs_used_, v_connections_, pool_max_size_, zs)
  /\ conns' = zombie_conns(conns, bs_used_, v_connections_, pool_max_size_, zs)
  /\ UNCHANGED << pool_initial_size_, pool_max_size_, v_connections_, ldap_host_,
                  bind_dn_, pool_mutex_, loans, pc, t_idx, t_conn, rc, sweeps,
                  crashed, group_role_mapping_, mapping >>

\* Lines 222-231, run by a detached thread (spawned at line 90 or 134).
Sweep(zs) ==
  /\ ~crashed
  /\ sweeps > 0
  /\ pool_mutex_ = 0
  /\ bs_used_' = zombie_used(bs_used_, v_connections_, pool_max_size_, zs)
  /\ conns' = zombie_conns(conns, bs_used_, v_connections_, pool_max_size_, zs)
  /\ sweeps' = sweeps - 1
  /\ UNCHANGED << pool_initial_size_, pool_max_size_, v_connections_, ldap_host_,
                  bind_dn_, pool_mutex_, loans, pc, t_idx, t_conn, rc, crashed >>
  /\ UNCHANGED << group_role_mapping_, mapping >>

ZombieSweep == \E zs \in SUBSET UsedHandles : Sweep(zs)

\* A sweep in a run where no handle ever reports zombie.
IdleSweep == Sweep({})

\* ------------------------------------------------------ Pool::reconfigure
\* Mutant of RcStart: the mutex is still held when zombie_control returns.
RcStart_Locked(zss) ==
  /\ ~crashed
  /\ rc.pc = "idle"
  /\ pool_mutex_ = 0
  /\ \E zs \in zss :
       /\ bs_used_' = zombie_used(bs_used_, v_connections_, pool_max_size_, zs)
       /\ conns' = zombie_conns(conns, bs_used_, v_connections_, pool_max_size_, zs)
  /\ rc' = [rc EXCEPT !.pc = "rc166"]
  /\ pool_mutex_' = RcThread
  /\ UNCHANGED << pool_initial_size_, pool_max_size_, v_connections_, ldap_host_,
                  bind_dn_, loans, pc, t_idx, t_conn, sweeps, crashed,
                  group_role_mapping_, mapping >>

\* The arguments of a call reconfigure(ni, nm, cfg) are inputs; each is drawn
\* in the step where the code first reads it (nm at line 169, cfg at line 185
\* or 196, ni at line 203), which is when it starts to matter.
\*
\* Lines 162-164: reconfigure is called and runs the forced zombie_control(),
\* which takes and releases the mutex; the handles reporting zombie are one
\* of the sets zss.
RcStart(zss) ==
  /\ ~crashed
  /\ rc.pc = "idle"
  /\ pool_mutex_ = 0
  /\ \E zs \in zss :
       /\ bs_used_' = zombie_used(bs_used_, v_connections_, pool_max_size_, zs)
       /\ conns' = zombie_conns(conns, bs_used_, v_connections_, pool_max_size_, zs)
  /\ rc' = [rc EXCEPT !.pc = "rc166"]
  /\ UNCHANGED << pool_initial_size_, pool_max_size_, v_connections_, ldap_host_,
                  bind_dn_, pool_mutex_, loans, pc, t_idx, t_conn, sweeps, crashed >>
  /\ UNCHANGED << group_role_mapping_, mapping >>

\* Lines 166-170: take the mutex; when the size changes, resize the bitmap.
RcLock ==
  /\ ~crashed
  /\ rc.pc = "rc166"
  /\ pool_mutex_ = 0
  /\ pool_mutex_' = RcThread
  /\ \E nm \in Sizes :
       /\ Cardinality(Live(conns)) + (IF nm > pool_max_size_ THEN nm - pool_max_size_ ELSE 0)
            <= MaxHandles
       /\ bs_used_' = IF nm # pool_max_size_ THEN resize_used(bs_used_, nm)
                      ELSE bs_used_
       /\ rc' = [rc EXCEPT !.pc = "rc173", !.nm = nm, !.om = pool_max_size_]
  /\ UNCHANGED << pool_initial_size_, pool_max_size_, v_connections_, ldap_host_,
                  bind_dn_, conns, loans, pc, t_idx, t_conn, sweeps, crashed >>
  /\ UNCHANGED << group_role_mapping_, mapping >>

\* Mutant of SnipTail: the handles cut off are not marked.
SnipTail_None(cs, v, nm, max) == cs

\* Lines 173-178: the handles of the slots [nm, max) are marked snipped.
SnipTail(cs, v, nm, max) ==
  [h \in HandleIds |->
     IF \E i \in nm + 1 .. max : v[i] = h THEN mark_as_snipped(cs[h]) ELSE cs[h]]

\* Lines 171-190: the rest of the resize: snip the slots cut off, resize the
\* vector, make the handles of the new slots, commit pool_max_size_.  The new
\* configuration is one of cfgs.
RcResize(cfgs) ==
  /\ ~crashed
  /\ rc.pc = "rc173"
  /\ \E cfg \in cfgs :
       /\ IF rc.nm # pool_max_size_
          THEN LET snipped == IF rc.nm < pool_max_size_
                              THEN SnipTail(conns, v_connections_, rc.nm, pool_max_size_)
                              ELSE conns
                   v1 == Resize(v_connections_, rc.nm, 0)
                   kept == Collect(snipped, v1, loans, t_conn)
                   made == IF rc.nm > pool_max_size_
                           THEN Fill(kept, v1, pool_max_size_, rc.nm, cfg)
                           ELSE [cs |-> kept, v |-> v1]
               IN /\ conns' = made.cs
                  /\ v_connections_' = made.v
                  /\ pool_max_size_' = rc.nm
          ELSE UNCHANGED << conns, v_connections_, pool_max_size_ >>
       /\ rc' = [rc EXCEPT !.pc = "rc196", !.cfg = cfg]
  /\ UNCHANGED << pool_initial_size_, bs_used_, ldap_host_, bind_dn_, pool_mutex_,
                  loans, pc, t_idx, t_conn, sweeps, crashed >>
  /\ UNCHANGED << group_role_mapping_, mapping >>

\* Mutant of ConfigureAll: every slot is connected, whatever the initial size.
ConfigureAll_ConnectAll(cs, v, max, init, cfg, cred) ==
  [h \in HandleIds |->
     IF \E i \in 1 .. max : v[i] = h
     THEN connect(configure(cs[h], cfg), cred)
     ELSE cs[h]]

\* Mutant of ConfigureAll: only the slots below the initial size are configured.
ConfigureAll_InitialOnly(cs, v, max, init, cfg, cred) ==
  [h \in HandleIds |->
     IF (\E i \in 1 .. max : v[i] = h) /\ cs[h].idx < init
     THEN connect(configure(cs[h], cfg), cred)
     ELSE cs[h]]

\* The loop of lines 207-214 over the slots: configure each handle, connect
\* those below the initial size.
ConfigureAll(cs, v, max, init, cfg, cred) ==
  [h \in HandleIds |->
     IF \E i \in 1 .. max : v[i] = h
     THEN IF cs[h].idx < init THEN connect(configure(cs[h], cfg), cred)
          ELSE configure(cs[h], cfg)
     ELSE cs[h]]

\* The slots the loop of lines 207-214 calls connect on.
ConfigureAllLog(max, init) == {i \in 0 .. max - 1 : i < init}

\* Lines 195-214: store the new configuration, then configure (and connect)
\* the slots.
RcConfigure ==
  /\ ~crashed
  /\ rc.pc = "rc196"
  /\ ldap_host_' = rc.cfg
  /\ bind_dn_' = rc.cfg
  /\ \E ni \in Sizes :
       /\ pool_initial_size_' = ni
       /\ conns' = ConfigureAll(conns, v_connections_, pool_max_size_, ni,
                                ldap_host_', bind_dn_')
       /\ rc' = [rc EXCEPT !.pc = "rc216", !.ni = ni,
                           !.log = ConfigureAllLog(pool_max_size_, ni)]
  /\ UNCHANGED << pool_max_size_, bs_used_, v_connections_, pool_mutex_, loans,
                  pc, t_idx, t_conn, sweeps, crashed >>
  /\ UNCHANGED << group_role_mapping_, mapping >>

\* The in-range part of the loop of lines 216-219: connect slots below n.
ReconnectInitial(cs, v, n, cred) ==
  [h \in HandleIds |->
     IF \E i \in 1 .. Len(v) : v[i] = h /\ i <= n THEN connect(cs[h], cred) ELSE cs[h]]

\* Handles an out-of-range v_connections_[i], Len <= i < n, can land on: the
\* storage past the vector's end may still hold the address of a handle that
\* was cut off at that position and is kept alive by its borrower.
StaleAt(cs, v, n) ==
  {h \in Live(cs) : /\ \A i \in 1 .. Len(v) : v[i] # h
                    /\ cs[h].idx >= Len(v)
                    /\ cs[h].idx < n}

\* Lines 216-219: the second loop connects v_connections_[i] for every
\* i < newpool_initial_size_, without regard to the vector's size.  Past the
\* end the access is undefined: the process dies, or the calls land on stale
\* storage (a retired handle, or nothing that matters) and the loop goes on.
RcReconnect ==
  /\ ~crashed
  /\ rc.pc = "rc216"
  /\ LET n == rc.ni
         inrange == ReconnectInitial(conns, v_connections_, n, bind_dn_)
     IN IF n <= Len(v_connections_)
        THEN /\ conns' = inrange
             /\ rc' = [rc EXCEPT !.pc = "rc220", !.log = @ \cup (0 .. n - 1)]
             /\ UNCHANGED crashed
        ELSE \/ /\ conns' = inrange
                /\ crashed' = TRUE
                /\ rc' = [rc EXCEPT !.log = @ \cup (0 .. Len(v_connections_))]
             \/ \E S \in SUBSET StaleAt(conns, v_connections_, n) :
                  /\ \A a \in S, b \in S : a # b => conns[a].idx # conns[b].idx
                  /\ conns' = [h \in HandleIds |->
                                 IF h \in S THEN connect(inrange[h], bind_dn_)
                                 ELSE inrange[h]]
                  /\ rc' = [rc EXCEPT !.pc = "rc220", !.log = @ \cup (0 .. n - 1)]
                  /\ UNCHANGED crashed
  /\ UNCHANGED << pool_initial_size_, pool_max_size_, bs_used_, v_connections_,
                  ldap_host_, bind_dn_, pool_mutex_, loans, pc, t_idx, t_conn, sweeps >>
  /\ UNCHANGED << group_role_mapping_, mapping >>

\* Line 220: reconfigure returns; the lock_guard releases the mutex.
RcUnlock ==
  /\ ~crashed
  /\ rc.pc = "rc220"
  /\ pool_mutex_' = 0
  /\ rc' = RcIdle
  /\ UNCHANGED << pool_initial_size_, pool_max_size_, bs_used_, v_connections_,
                  ldap_host_, bind_dn_, conns, loans, pc, t_idx, t_conn, sweeps,
                  crashed >>
  /\ UNCHANGED << group_role_mapping_, mapping >>

\* The forced sweep when any handle may report zombie, and when none does.
RcStartAny == RcStart(SUBSET UsedHandles)

RcStartQuiet == RcStart({{}})

\* A reconfigure that may change the settings and credentials.
RcResizeAny == RcResize(Cfgs)

\* A reconfigure that changes the sizes only and keeps the configuration.
RcResizeSame == RcResize({ldap_host_})

\* Lines 140-153: reset_group_role_mapping(s), which takes no lock and
\* touches nothing but the map.
ResetGroupRoleMapping ==
  /\ Len(mapping.s) <= MaxEarlier
  /\ \E s \in Mappings :
       /\ group_role_mapping_' = reset_group_role_mapping(group_role_mapping_, s)
       /\ mapping' = [called |-> TRUE, s |-> s]
  /\ UNCHANGED << pool_initial_size_, pool_max_size_, bs_used_, v_connections_,
                  ldap_host_, bind_dn_, pool_mutex_, conns, loans, pc, t_idx,
                  t_conn, rc, sweeps, crashed >>

\* --------------------------------------------------------- specifications
\* All callers, detached sweeps (any handle may report zombie) and
\* reconfigure calls that resize the pool, in any interleaving.
Next ==
  \/ \E c \in Callers : BorrowLock(c)
  \/ \E c \in Callers : BorrowNone(c)
  \/ \E c \in Callers : BorrowGet(c)
  \/ \E c \in Callers : BorrowFree(c)
  \/ \E c \in Callers, h \in HandleIds : ReturnStart(c, h)
  \/ \E c \in Callers : ReturnFree(c)
  \/ \E c \in Callers : ReturnCheck(c)
  \/ ZombieSweep
  \/ RcStartAny
  \/ RcLock
  \/ RcResizeSame
  \/ RcConfigure
  \/ RcReconnect
  \/ RcUnlock

Spec == Init /\ [][Next]_vars

\* One caller, the sweeps it spawns and reconfigure calls that also replace
\* the configuration; no handle reports zombie.
NextCfg ==
  \/ BorrowLock(1)
  \/ BorrowNone(1)
  \/ BorrowGet(1)
  \/ BorrowFree(1)
  \/ \E h \in HandleIds : ReturnStart(1, h)
  \/ ReturnFree(1)
  \/ ReturnCheck(1)
  \/ IdleSweep
  \/ RcStartQuiet
  \/ RcLock
  \/ RcResizeAny
  \/ RcConfigure
  \/ RcReconnect
  \/ RcUnlock

SpecCfg == Init /\ [][NextCfg]_vars

\* Only borrow_connection and return_connection run (with the sweeps they
\* spawn), and no handle ever reports zombie.
NextBR ==
  \/ \E c \in Callers : BorrowLock(c)
  \/ \E c \in Callers : BorrowNone(c)
  \/ \E c \in Callers : BorrowGet(c)
  \/ \E c \in Callers : BorrowFree(c)
  \/ \E c \in Callers, h \in HandleIds : ReturnStart(c, h)
  \/ \E c \in Callers : ReturnFree(c)
  \/ \E c \in Callers : ReturnCheck(c)
  \/ IdleSweep

SpecBR == Init /\ [][NextBR]_vars

\* Calls of reset_group_role_mapping alone, on a pool constructed with
\* MaxSize slots, none connected.
InitMap == Init /\ pool_max_size_ = MaxSize /\ pool_initial_size_ = 0

NextMap == ResetGroupRoleMapping

SpecMap == InitMap /\ [][NextMap]_vars

\* Callers and detached sweeps (any handle may report zombie), no
\* reconfigure, under fair scheduling: a caller inside an operation goes on
\* (connect terminates), and a thread waiting for the mutex gets it when it
\* is released again and again.
NextSweep ==
  \/ \E c \in Callers : BorrowLock(c)
  \/ \E c \in Callers : BorrowNone(c)
  \/ \E c \in Callers : BorrowGet(c)
  \/ \E c \in Callers : BorrowFree(c)
  \/ \E c \in Callers, h \in HandleIds : ReturnStart(c, h)
  \/ \E c \in Callers : ReturnFree(c)
  \/ \E c \in Callers : ReturnCheck(c)
  \/ ZombieSweep

CallerFairness ==
  \A c \in Callers :
    /\ WF_vars(BorrowNone(c))
    /\ WF_vars(BorrowGet(c))
    /\ WF_vars(BorrowFree(c))
    /\ SF_vars(ReturnFree(c))
    /\ WF_vars(ReturnCheck(c))

SpecSweep == Init /\ [][NextSweep]_vars /\ CallerFairness /\ SF_vars(ZombieSweep)

\* A reconfigure whose arguments keep new_initial_size <= new_max_size.
RcConfigureInRange == RcConfigure /\ rc'.ni <= rc.nm

\* One caller, detached sweeps (any handle may report zombie) and reconfigure
\* calls with new_initial_size <= new_max_size and an unchanged
\* configuration, under fair scheduling.
NextFair ==
  \/ BorrowLock(1)
  \/ BorrowNone(1)
  \/ BorrowGet(1)
  \/ BorrowFree(1)
  \/ \E h \in HandleIds : ReturnStart(1, h)
  \/ ReturnFree(1)
  \/ ReturnCheck(1)
  \/ ZombieSweep
  \/ RcStartAny
  \/ RcLock
  \/ RcResizeSame
  \/ RcConfigureInRange
  \/ RcReconnect
  \/ RcUnlock

\* The caller inside an operation goes on; waiting for the mutex it gets it.
Caller1Fairness ==
  /\ WF_vars(BorrowNone(1))
  /\ WF_vars(BorrowGet(1))
  /\ WF_vars(BorrowFree(1))
  /\ SF_vars(ReturnFree(1))
  /\ WF_vars(ReturnCheck(1))

\* reconfigure goes on once called; waiting for the mutex it gets it.
RcFairness ==
  /\ SF_vars(RcLock)
  /\ WF_vars(RcResizeSame)
  /\ WF_vars(RcConfigureInRange)
  /\ WF_vars(RcReconnect)
  /\ WF_vars(RcUnlock)

SpecFair ==
  Init /\ [][NextFair]_vars /\ Caller1Fairness /\ SF_vars(ZombieSweep) /\ RcFairness

\* ------------------------------------------------------------- properties
\* The lowest 0-based index whose bit is clear, -1 when there is none.
LowestClear(bs) ==
  IF \E i \in 1 .. Len(bs) : ~bs[i]
  THEN (CHOOSE i \in 1 .. Len(bs) : ~bs[i] /\ \A j \in 1 .. i - 1 : bs[j]) - 1
  ELSE -1

\* C1: with only borrow_connection and return_connection running and no
\* handle reporting zombie, no slot is lent to two callers at once: the
\* handle of a slot has at most one borrower, and while it has one the
\* slot's used bit is set, so no other borrow can be given the slot.
C1_NoDoubleAssign ==
  \A i \in 1 .. Len(v_connections_) :
    /\ loans[v_connections_[i]] <= 1
    /\ loans[v_connections_[i]] = 1 => bs_used_[i]

\* A handle is lent while another caller's borrow has been given another slot.
C1_Witness ==
  \E c \in Callers, h \in HandleIds :
    /\ loans[h] = 1
    /\ pc[c] = "b89"
    /\ t_idx[c] >= 0
    /\ v_connections_[t_idx[c] + 1] # h

\* C5: a borrow_connection that finds every used bit set picks no slot,
\* changes no used bit, no handle and no loan, spawns exactly one detached
\* sweep and returns nullptr with that sweep still waiting to run; nothing
\* else changes the bitmap while the call holds the mutex.
C5_Step ==
  \A c \in Callers :
    /\ (pc[c] = "idle" /\ pc'[c] = "b89" /\ Count(bs_used_) = pool_max_size_)
         => /\ t_idx'[c] = -1
            /\ bs_used_' = bs_used_
            /\ conns' = conns
            /\ loans' = loans
            /\ sweeps' = sweeps
    /\ (pc[c] = "b89" /\ t_idx[c] = -1 /\ pc'[c] # "b89")
         => /\ pc'[c] = "idle"
            /\ bs_used_' = bs_used_
            /\ conns' = conns
            /\ loans' = loans
            /\ sweeps' = sweeps + 1
            /\ pool_mutex_' = 0
    /\ (pc[c] = "b89" /\ t_idx[c] = -1 /\ pc'[c] = "b89")
         => bs_used_' = bs_used_

C5_ExhaustedBorrow == [][C5_Step]_vars

\* A borrow has found a pool of two slots full.
C5_Witness ==
  \E c \in Callers :
    /\ pc[c] = "b89"
    /\ t_idx[c] = -1
    /\ pool_max_size_ >= 2
    /\ Count(bs_used_) = pool_max_size_

\* C6: when borrow_connection has chosen slot i and connect fails, no handle
\* is lent, and when the call releases the mutex bit i is clear and every
\* other bit is as it was before the call (the call set bit i alone, nothing
\* changed the bitmap while it held the mutex, it clears bit i alone), so
\* find_first_free on that bitmap gives i again.
C6_Step ==
  \A c \in Callers :
    /\ (pc[c] = "idle" /\ pc'[c] = "b89" /\ t_idx'[c] >= 0)
         => /\ ~bs_used_[t_idx'[c] + 1]
            /\ bs_used_' = [bs_used_ EXCEPT ![t_idx'[c] + 1] = TRUE]
    /\ (pc[c] \in {"b89", "b99"} /\ pc'[c] \in {"b89", "b99"})
         => /\ bs_used_' = bs_used_
            /\ t_idx'[c] = t_idx[c]
    /\ (pc[c] = "b89" /\ pc'[c] = "b99")
         => /\ loans' = loans
            /\ conns'[v_connections_[t_idx[c] + 1]].ccred = bind_dn_
    /\ (pc[c] = "b99" /\ pc'[c] # "b99")
         => /\ pc'[c] = "idle"
            /\ loans' = loans
            /\ bs_used_[t_idx[c] + 1]
            /\ bs_used_' = [bs_used_ EXCEPT ![t_idx[c] + 1] = FALSE]
            /\ pool_mutex_' = 0
            /\ find_first_free(bs_used_', pool_max_size_') = t_idx[c]

C6_ConnectFailureFreesSlot == [][C6_Step]_vars

\* connect has failed on a slot chosen while another slot is in use.
C6_Witness ==
  \E c \in Callers :
    /\ pc[c] = "b99"
    /\ \E j \in 1 .. Len(bs_used_) : j # t_idx[c] + 1 /\ bs_used_[j]

\* C8: borrow_connection picks the lowest index whose used bit is clear when
\* it is called (none when all are set), and a successful call lends exactly
\* the handle stored at that index, whose own index it is; an exhausted call
\* lends nothing.  (So a fresh pool of n slots lends 0 .. n-1 in order, then
\* nothing, and an index returned to a full pool is the next one lent.)
C8_Step ==
  \A c \in Callers :
    /\ (pc[c] = "idle" /\ pc'[c] = "b89")
         => t_idx'[c] = LowestClear(bs_used_)
    /\ (pc[c] = "b89" /\ pc'[c] = "idle" /\ t_idx[c] >= 0)
         => LET h == v_connections_[t_idx[c] + 1]
            IN /\ loans' = [loans EXCEPT ![h] = @ + 1]
               /\ get_idx_pool(conns'[h]) = t_idx[c]
    /\ (pc[c] = "b89" /\ pc'[c] = "idle" /\ t_idx[c] = -1)
         => loans' = loans

C8_LowestFreeIndex == [][C8_Step]_vars

\* Index 0 is chosen again while slot 1 is still lent.
C8_Witness ==
  \E c \in Callers, h \in HandleIds :
    /\ pc[c] = "b89"
    /\ t_idx[c] = 0
    /\ Len(bs_used_) >= 2
    /\ bs_used_[2]
    /\ loans[h] = 1
    /\ conns[h].idx = 1

\* C2: in every reachable state at most one borrower holds a given handle,
\* also after zombie_control has freed the slot of a handle that is still
\* held, and after that holder returns it.
C2_AtMostOneBorrower == \A h \in HandleIds : loans[h] <= 1

\* C3: when reconfigure shrinks the pool, the bitmap keeps exactly the bits
\* of the surviving slots, every handle cut off that stays alive (all those
\* lent) is marked snipped, snipped is never undone, the handles outside the
\* slot array are exactly the snipped ones, returning a snipped handle
\* changes no used bit and touches nothing of the pool, and no borrow ever
\* lends a snipped handle, however the pool is resized afterwards.
C3_Retired ==
  \A h \in Live(conns) :
    is_snipped(conns[h]) <=> ~(\E i \in 1 .. Len(v_connections_) : v_connections_[i] = h)

C3_Step ==
  /\ (rc.pc = "rc166" /\ rc'.pc = "rc173" /\ rc'.nm < pool_max_size_)
       => /\ Len(bs_used_') = rc'.nm
          /\ \A i \in 1 .. rc'.nm : bs_used_'[i] = bs_used_[i]
  /\ (rc.pc = "rc173" /\ rc'.pc = "rc196" /\ rc.nm < pool_max_size_)
       => /\ pool_max_size_' = rc.nm
          /\ Len(v_connections_') = rc.nm
          /\ \A i \in 1 .. rc.nm : v_connections_'[i] = v_connections_[i]
          /\ bs_used_' = bs_used_
          /\ Len(bs_used_) = rc.nm
          /\ \A i \in rc.nm + 1 .. pool_max_size_ :
               LET h == v_connections_[i]
               IN /\ loans[h] > 0 => conns'[h] # NoConn
                  /\ conns'[h] # NoConn => is_snipped(conns'[h])
  /\ \A h \in HandleIds :
       /\ (is_snipped(conns[h]) /\ conns'[h] # NoConn) => is_snipped(conns'[h])
       /\ (loans'[h] < loans[h] /\ is_snipped(conns[h]))
            => /\ bs_used_' = bs_used_
               /\ v_connections_' = v_connections_
               /\ pool_max_size_' = pool_max_size_
               /\ sweeps' = sweeps
               /\ pc' = pc
       /\ loans'[h] > loans[h]
            => ~is_snipped(conns[h]) /\ ~is_snipped(conns'[h])
  /\ C3_Retired'

C3_ShrinkSnips == [][C3_Step]_vars

\* A snipped handle is still lent after the pool has grown back over its
\* index, and the new handle of that index is lent too.
C3_Witness ==
  \E h \in HandleIds :
    /\ is_snipped(conns[h])
    /\ loans[h] > 0
    /\ conns[h].idx < pool_max_size_
    /\ rc.pc = "idle"
    /\ loans[v_connections_[conns[h].idx + 1]] > 0

\* C4: whenever the mutex is not held, the bitmap, the slot array and
\* pool_max_size_ agree in length, and the number of set bits lies between
\* 0 and pool_max_size_.
C4_SizesAgree ==
  pool_mutex_ = 0 =>
    /\ Len(bs_used_) = pool_max_size_
    /\ Len(v_connections_) = pool_max_size_
    /\ Count(bs_used_) >= 0
    /\ Count(bs_used_) <= pool_max_size_

\* The mutex is free and the pool is full, after a shrink (a snipped handle
\* is still lent) and a later growth over that handle's index.
C4_Witness ==
  /\ pool_mutex_ = 0
  /\ rc.pc = "idle"
  /\ pool_max_size_ > 0
  /\ Count(bs_used_) = pool_max_size_
  /\ \E h \in HandleIds : is_snipped(conns[h]) /\ conns[h].idx < pool_max_size_

\* C7: when reconfigure has grown the pool from M to N slots, every new slot
\* holds a fresh handle (its own index, not snipped, not busy, lent to
\* nobody, carrying the new settings) with its used bit clear; reconfigure
\* has called connect on the new slots below the new initial size and on no
\* other new slot; and a borrow that reaches a new slot (all lower bits set)
\* picks it and, with default_connect, connects it with the stored
\* credentials and marks it busy.
C7_GrowNewSlots ==
  (rc.pc = "rc220" /\ rc.nm > rc.om) =>
    \A i \in rc.om .. rc.nm - 1 :
      LET h == v_connections_[i + 1]
          cn == conns[h]
          lent == get_connection(cn, TRUE, TRUE, bind_dn_)
      IN /\ cn # NoConn
         /\ get_idx_pool(cn) = i
         /\ ~is_snipped(cn)
         /\ ~cn.busy
         /\ cn.ep = rc.cfg
         /\ loans[h] = 0
         /\ ~bs_used_[i + 1]
         /\ \A j \in 1 .. Len(v_connections_) : v_connections_[j] = h => j = i + 1
         /\ i >= rc.ni => (cn.cep = 0 /\ cn.ccred = 0 /\ i \notin rc.log)
         /\ i < rc.ni => (cn.cep = rc.cfg /\ cn.ccred = rc.cfg /\ i \in rc.log)
         /\ find_first_free([j \in 1 .. Len(bs_used_) |-> j <= i \/ bs_used_[j]],
                            pool_max_size_) = i
         /\ lent.busy /\ lent.cep = rc.cfg /\ lent.ccred = bind_dn_

\* The pool has grown by two slots with the new initial size between the old
\* and the new size: one new slot was connected, the other was not.
C7_Witness ==
  /\ rc.pc = "rc220"
  /\ rc.om < rc.ni
  /\ rc.ni < rc.nm

\* C7 as stated: whatever the new initial size, reconfigure has called
\* connect on no new slot of a grown pool.
C7_NewSlotsUnconnected ==
  (rc.pc = "rc220" /\ rc.nm > rc.om) =>
    \A i \in rc.om .. rc.nm - 1 :
      /\ conns[v_connections_[i + 1]].cep = 0
      /\ i \notin rc.log
      /\ ~bs_used_[i + 1]

\* C9: no step of reconfigure touches a handle that is lent and whose slot's
\* used bit is set: its settings and its connection stay as they are
\* (neither configure nor connect is called on it), and while its index is
\* below the new size the slot keeps the handle and the bit stays set.
C9_Step ==
  rc'.pc # rc.pc =>
    \A i \in 1 .. Len(v_connections_) :
      LET h == v_connections_[i]
      IN (i <= Len(bs_used_) /\ bs_used_[i] /\ loans[h] > 0) =>
           /\ conns'[h].ep = conns[h].ep
           /\ conns'[h].cep = conns[h].cep
           /\ conns'[h].ccred = conns[h].ccred
           /\ i <= Len(v_connections_') => v_connections_'[i] = h
           /\ i <= Len(bs_used_') => bs_used_'[i]

C9_LentUntouched == [][C9_Step]_vars

\* C10: when reconfigure(ni, nm, cfg) with ni <= nm has run its loops, every
\* slot below nm carries the new settings, the stored configuration is the
\* new one, every slot below ni has been connected with the new credentials
\* over the new settings (already by the first loop, and still after the
\* second), and connect was called on no slot from ni on.
C10_Reconfigured ==
  (rc.pc \in {"rc216", "rc220"} /\ rc.ni <= rc.nm) =>
    /\ pool_max_size_ = rc.nm
    /\ Len(v_connections_) = rc.nm
    /\ ldap_host_ = rc.cfg
    /\ bind_dn_ = rc.cfg
    /\ pool_initial_size_ = rc.ni
    /\ rc.log = 0 .. rc.ni - 1
    /\ \A i \in 0 .. rc.nm - 1 :
         LET cn == conns[v_connections_[i + 1]]
         IN /\ cn.ep = rc.cfg
            /\ i < rc.ni => (cn.cep = rc.cfg /\ cn.ccred = rc.cfg)

\* A reconfigure that replaces the configuration has completed with the new
\* initial size strictly between 0 and the new size.
C10_Witness ==
  /\ rc.pc = "rc220"
  /\ rc.ni > 0
  /\ rc.ni < rc.nm
  /\ rc.cfg = 2
  /\ \E h \in HandleIds : conns[h] # NoConn /\ conns[h].cep = 1

\* The comma-separated items of s, by the positions of its commas.
Commas(s) == {i \in 1 .. Len(s) : s[i] = ","}

ItemStarts(s) == {1} \cup {i + 1 : i \in Commas(s)}

ItemAt(s, b) ==
  LET ends == {i \in Commas(s) : i >= b}
  IN SubSeq(s, b, IF ends = {} THEN Len(s) ELSE Min(ends) - 1)

\* The positions of '=' in an item, its key (the text before the first '=',
\* the whole item when there is none) and the text after the first '='.
Equals(it) == {i \in 1 .. Len(it) : it[i] = "="}

KeyOf(it) == IF Equals(it) = {} THEN it ELSE SubSeq(it, 1, Min(Equals(it)) - 1)

RestOf(it) == IF Equals(it) = {} THEN it ELSE SubSeq(it, Min(Equals(it)) + 1, Len(it))

\* The start of the last item of s with the key of the item at b.
LastWithKey(s, b) ==
  CHOOSE e \in ItemStarts(s) :
    /\ KeyOf(ItemAt(s, e)) = KeyOf(ItemAt(s, b))
    /\ \A f \in ItemStarts(s) : KeyOf(ItemAt(s, f)) = KeyOf(ItemAt(s, b)) => f <= e

\* C11: after reset_group_role_mapping(s) the map holds exactly the keys of
\* the comma-separated items of s, whatever it held before; an item 'k=v'
\* (one '=') maps k to v and a bare item k maps k to itself, the last item
\* of a key deciding; "a=1,b=2,c" gives {a:1, b:2, c:c}.
C11_MappingRebuilt ==
  mapping.called =>
    /\ DOMAIN group_role_mapping_ =
         {KeyOf(ItemAt(mapping.s, b)) : b \in ItemStarts(mapping.s)}
    /\ \A b \in ItemStarts(mapping.s) :
         LET it == ItemAt(mapping.s, b)
         IN (LastWithKey(mapping.s, b) = b /\ Cardinality(Equals(it)) <= 1)
              => group_role_mapping_[KeyOf(it)] = RestOf(it)
    /\ mapping.s = << "a", "=", "1", ",", "b", "=", "2", ",", "c" >>
         => /\ DOMAIN group_role_mapping_ = {<< "a" >>, << "b" >>, << "c" >>}
            /\ group_role_mapping_[<< "a" >>] = << "1" >>
            /\ group_role_mapping_[<< "b" >>] = << "2" >>
            /\ group_role_mapping_[<< "c" >>] = << "c" >>

\* The map was rebuilt from "a=1,b=2,c".
C11_Witness ==
  /\ mapping.called
  /\ mapping.s = << "a", "=", "1", ",", "b", "=", "2", ",", "c" >>
  /\ group_role_mapping_[<< "b" >>] = << "2" >>

\* C16: an item with more than one '=' maps the text before its first '=' to
\* all of the text after that '='.
C16_FirstEqualsOnly ==
  mapping.called =>
    \A b \in ItemStarts(mapping.s) :
      LET it == ItemAt(mapping.s, b)
      IN (LastWithKey(mapping.s, b) = b /\ Cardinality(Equals(it)) > 1)
           => /\ KeyOf(it) \in DOMAIN group_role_mapping_
              /\ group_role_mapping_[KeyOf(it)] = RestOf(it)

\* C12: the handle stored at position i of the slot array has index i,
\* before and after every step; no step changes the index of a handle that stays
\* alive, and a handle that is in the slot array before and after a step is
\* at the same position (slots are only cut off at the end or appended).
C12_IndexAtPosition ==
  \A i \in 1 .. Len(v_connections_) :
    /\ conns[v_connections_[i]] # NoConn
    /\ get_idx_pool(conns[v_connections_[i]]) = i - 1

C12_Step ==
  /\ C12_IndexAtPosition
  /\ C12_IndexAtPosition'
  /\ \A h \in HandleIds :
       (conns[h] # NoConn /\ conns'[h] # NoConn)
         => get_idx_pool(conns'[h]) = get_idx_pool(conns[h])
  /\ \A i \in 1 .. Len(v_connections_), j \in 1 .. Len(v_connections_') :
       v_connections_'[j] = v_connections_[i] => j = i
  /\ \A i \in 1 .. Len(v_connections_) :
       i <= Len(v_connections_') => v_connections_'[i] = v_connections_[i]

C12_IndexFixed == [][C12_Step]_vars

\* The pool was cut below a lent handle's index and has grown again: the
\* slot of that index holds another handle with the same index.
C12_Witness ==
  \E h \in HandleIds :
    /\ is_snipped(conns[h])
    /\ get_idx_pool(conns[h]) < Len(v_connections_)
    /\ v_connections_[get_idx_pool(conns[h]) + 1] # h
    /\ get_idx_pool(conns[v_connections_[get_idx_pool(conns[h]) + 1]])
         = get_idx_pool(conns[h])
    /\ rc.pc = "rc220"

\* C13: one run of zombie_control (detached, or forced by reconfigure)
\* clears the used bit and marks the handle free for exactly the slots that
\* are used and whose handle is in the set reporting zombie; every other
\* bit and handle, the slot array, the sizes, the stored configuration and
\* the loans are unchanged.
C13_Step ==
  (sweeps' < sweeps \/ (rc.pc = "idle" /\ rc'.pc = "rc166")) =>
    \E zs \in SUBSET UsedHandles :
      /\ Len(bs_used_') = Len(bs_used_)
      /\ \A i \in 1 .. Len(bs_used_) :
           bs_used_'[i] = (bs_used_[i] /\ v_connections_[i] \notin zs)
      /\ \A h \in HandleIds :
           conns'[h] = IF h \in zs THEN [conns[h] EXCEPT !.busy = FALSE] ELSE conns[h]
      /\ v_connections_' = v_connections_
      /\ pool_max_size_' = pool_max_size_
      /\ pool_initial_size_' = pool_initial_size_
      /\ ldap_host_' = ldap_host_
      /\ bind_dn_' = bind_dn_
      /\ loans' = loans
      /\ pool_mutex_' = pool_mutex_

C13_SweepFrame == [][C13_Step]_vars

\* A sweep has freed the slot of one lent handle and left another lent
\* handle's slot used.
C13_Witness ==
  \E i \in 1 .. Len(v_connections_), j \in 1 .. Len(v_connections_) :
    /\ i <= Len(bs_used_) /\ j <= Len(bs_used_)
    /\ loans[v_connections_[i]] > 0
    /\ ~conns[v_connections_[i]].busy
    /\ ~bs_used_[i]
    /\ loans[v_connections_[j]] > 0
    /\ conns[v_connections_[j]].busy
    /\ bs_used_[j]

\* Whether the set bits are at least nine tenths of max_size.
NineTenthsUsed == 10 * Count(bs_used_) >= 9 * pool_max_size_

\* C14: return_connection of a handle that is not snipped spawns a sweep
\* exactly when the set bits, after the handle's bit has been cleared, are
\* at least nine tenths of max_size: the number of set bits left by the
\* clearing is what the test sees, and it alone decides the spawn.
\* return_connection of a snipped handle spawns nothing.
C14_AsStatedStep ==
  /\ \A c \in Callers :
       /\ (pc[c] = "r133" /\ pc'[c] = "r133") => (NineTenthsUsed' <=> NineTenthsUsed)
       /\ (pc[c] = "r133" /\ pc'[c] = "idle") => (sweeps' = sweeps + 1 <=> NineTenthsUsed)
  /\ \A h \in HandleIds :
       (loans'[h] < loans[h] /\ is_snipped(conns[h])) => sweeps' = sweeps

C14_SpawnIffAfterClear == [][C14_AsStatedStep]_vars

\* C15: a pending sweep is always followed by a run of a sweep: sweeps run
\* again and again, or from some point on none is pending (which only runs
\* bring about).  Sweeps being interchangeable, the n-th spawned is matched
\* by the n-th run, so every one runs.  The caller that spawns returns in the same step, with
\* the sweep still pending; and a sweep step is one whole run, under the
\* mutex, after which every slot is free unless it was used and its handle
\* did not report zombie, so that find_first_free can pick a freed slot.
C15_Step ==
  /\ \A c \in Callers :
       (sweeps' > sweeps /\ pc[c] # "idle" /\ pc'[c] # pc[c])
         => pc'[c] = "idle" /\ sweeps' = sweeps + 1
  /\ sweeps' < sweeps
       => /\ sweeps' = sweeps - 1
          /\ pool_mutex_ = 0 /\ pool_mutex_' = 0
          /\ \A i \in 1 .. Len(bs_used_) :
               /\ bs_used_'[i] => bs_used_[i]
               /\ (bs_used_[i] /\ ~bs_used_'[i])
                    => /\ ~conns'[v_connections_[i]].busy
                       /\ find_first_free(bs_used_', pool_max_size_') # -1
                       /\ find_first_free(bs_used_', pool_max_size_') <= i - 1

C17_Step ==
  \A c \in Callers :
    (pc[c] = "r125" /\ pc'[c] = "r133") =>
      /\ Len(bs_used_') = Len(bs_used_)
      /\ \A i \in 1 .. Len(bs_used_) :
           bs_used_'[i] # bs_used_[i] => v_connections_[i] = t_conn[c]

C17_ReturnClearsOwnSlot == [][C17_Step]_vars

\* C18: every step in which a thread reads or writes the bitmap, the slot
\* array or max_size is made by the owner of the mutex (or takes and
\* releases it within the step); in particular a caller makes the occupancy
\* test of return_connection while it owns the mutex.
C18_Step ==
  /\ \A c \in Callers :
       /\ (pc[c] = "idle" /\ pc'[c] = "b89") => (pool_mutex_ = 0 /\ pool_mutex_' = c)
       /\ (pc[c] \in {"b89", "b99"} /\ pc'[c] # pc[c]) => pool_mutex_ = c
       /\ (pc[c] = "r125" /\ pc'[c] = "r133") => pool_mutex_ = 0
       /\ (pc[c] = "r133" /\ pc'[c] = "idle") => pool_mutex_ = c
  /\ sweeps' < sweeps => pool_mutex_ = 0
  /\ (rc.pc = "idle" /\ rc'.pc = "rc166") => pool_mutex_ = 0
  /\ (rc.pc = "rc166" /\ rc'.pc = "rc173") => (pool_mutex_ = 0 /\ pool_mutex_' = RcThread)
  /\ (rc.pc \in {"rc173", "rc196", "rc216", "rc220"} /\ rc'.pc # rc.pc)
       => pool_mutex_ = RcThread

C18_AccessUnderMutex == [][C18_Step]_vars

\* C19: reconfigure calls configure and connect on indices below the length
\* of the slot array only, whatever its arguments, and the process does not
\* die of an access past the array's end.
C19_AccessInRange ==
  /\ ~crashed
  /\ \A i \in rc.log : i < Len(v_connections_)

\* C20: a thread that is about to lock the mutex does not own it (the owner
\* is a caller inside borrow_connection's critical section or the
\* reconfiguring thread inside its own, and nobody else), every critical
\* section ends, and every operation in progress completes.
C20_OwnerInside ==
  /\ \A c \in Callers : pool_mutex_ = c <=> pc[c] \in {"b89", "b99"}
  /\ pool_mutex_ = RcThread <=> rc.pc \in {"rc173", "rc196", "rc216", "rc220"}
  /\ pool_mutex_ \in {0, RcThread} \cup Callers

====
